---- MODULE Spec2Model ----
(***************************************************************************)
(* Model of tgmix's message consolidation engine                           *)
(* (src/tgmix/message_processor.py): the author-map pass, the stitching    *)
(* loop of stitch_messages, the absorption loop of combine_messages, the   *)
(* reaction merge of combine_reactions and the reply pass fix_reply_ids.   *)
(*                                                                         *)
(* Conventions.  Python lists are sequences, so the cursors message_id and *)
(* next_id are 1-based here (the code's message_id + 1).  A Python string  *)
(* is a sequence of tokens (<<"Hi">>, <<"**", "b", "**">>), the empty      *)
(* string is << >>.  None and an absent dictionary key are the value None  *)
(* for string-valued fields and the empty sequence for the optional        *)
(* reply_to_message_id and media fields.  The backquote is the token "BQ", *)
(* the code fence the token "BQ3".  A raised Python exception leaves       *)
(* stitch_messages without a result: pc = "crashed".                       *)
(***************************************************************************)
EXTENDS Integers, Sequences, FiniteSets, TLC

VARIABLES source_messages,   \* the input list (never modified)
          pc,                \* position in the run: authors, scan, absorb, fix, done, crashed
          id_to_author_map,  \* from_id -> compact id
          author_map,        \* sequence of [compact_id, name, id], in allocation order
          message_id,        \* cursor of the outer loop of stitch_messages
          next_id,           \* cursor of the loop of combine_messages
          parsed_msg,        \* the canonical message being built (<< >> or <<msg>>)
          stitched_messages, \* emitted ParsedMessages
          id_alias_map,      \* absorbed id -> canonical id
          pbar,              \* number of pbar.update() calls
          copied             \* source files handed to copy_media_file, in order

\* The Media object of media_processor.py and its calls.
VARIABLES do_mark_media,       \* Media.do_mark_media
          transcribe_media,    \* config.get("transcribe_media")
          transcription_cache, \* resolved path -> transcript, as passed to process
          last_call,           \* what the last Media.process call did (<< >> before the first)
          engine_unavailable   \* a marking call has raised FFmpegProcessError

\* One batch_transcribe call.
VARIABLES source_paths,  \* the keys of source_paths_with_duration
          bpc,           \* start, collecting, returned, raised
          pending,       \* paths no worker has taken yet
          arrived,       \* results the pool holds for the parent, uncollected
          worker_model,  \* per worker process: is its WhisperModel constructed
          running,       \* per worker process: the path it is transcribing
          results,       \* the dict the parent fills: path -> <<text>>, << >> for None
          tbar           \* number of pbar.update() calls of the batch

stitchVars == <<source_messages, pc, id_to_author_map, author_map, message_id,
                next_id, parsed_msg, stitched_messages, id_alias_map, pbar,
                copied>>

mediaVars == <<do_mark_media, transcribe_media, transcription_cache,
               last_call, engine_unavailable>>

batchVars ==
  <<source_paths, bpc, pending, arrived, worker_model, running, results, tbar>>

vars == <<stitchVars, mediaVars, batchVars>>

None == "None"

\* Longest source list explored.
MaxMsgs == 3

\* Most worker processes explored; the pool has max(1, cpu_count() - 1).
NumProcesses == 2

----------------------------------------------------------------------------
(* Text rendering *)

\* Python truthiness of message.get("text"): absent, "" and [] are falsy.
TextTruthy(text) == text.kind # "absent" /\ text.val # << >>

\* One entity of a text list (lines 22-53).
RenderEntity(entity) ==
  IF entity.type = "str" THEN entity.text
  ELSE IF entity.text = << >> THEN << >>
  ELSE CASE entity.type = "bold" -> <<"**">> \o entity.text \o <<"**">>
         [] entity.type = "italic" -> <<"*">> \o entity.text \o <<"*">>
         [] entity.type = "strikethrough" -> <<"~~">> \o entity.text \o <<"~~">>
         [] entity.type = "code" -> <<"BQ">> \o entity.text \o <<"BQ">>
         [] entity.type = "pre" ->
              <<"BQ3">> \o entity.language \o <<"\n">> \o entity.text \o <<"\n", "BQ3">>
         [] entity.type = "text_link" ->
              <<"[">> \o entity.text \o <<"](">> \o entity.href \o <<")">>
         [] OTHER -> entity.text

RECURSIVE JoinParts(_)
JoinParts(parts) ==
  IF parts = << >> THEN << >>
  ELSE RenderEntity(Head(parts)) \o JoinParts(Tail(parts))

format_text_entities_to_markdown(entities) ==
  IF ~TextTruthy(entities) THEN << >>
  ELSE IF entities.kind = "str" THEN entities.val
  ELSE JoinParts(entities.val)

----------------------------------------------------------------------------
(* Media (message_processor.process_media) *)

\* The descriptor process_media returns: << >> when the message has no media
\* key, else <<[type, source_file]>>.  The file is copied in the second case.
process_media(msg) ==
  IF msg.media_type = None THEN << >>
  ELSE <<[type |-> msg.media_type, source_file |-> msg.media_file]>>

\* The copy_media_file call of process_media, as an entry of the copy log.
MediaCopies(msg) ==
  IF msg.media_type = None THEN << >> ELSE <<msg.media_file>>

----------------------------------------------------------------------------
(* Author map (stitch_messages, lines 112-127) *)

\* dict.get(key): None when the key is missing (None itself is never a key).
MapGet(map, key) == IF key \in DOMAIN map THEN map[key] ELSE None

\* The author pass numbering authors by the position of the entry.
RECURSIVE AuthorPassByPosition(_, _, _, _)
AuthorPassByPosition(msgs, k, idmap, amap) ==
  IF k > Len(msgs) THEN [id_to_author_map |-> idmap, author_map |-> amap]
  ELSE LET author_id == msgs[k].from_id IN
       IF author_id = None \/ author_id \in DOMAIN idmap
       THEN AuthorPassByPosition(msgs, k + 1, idmap, amap)
       ELSE LET compact_id == "U" \o ToString(k) IN
            AuthorPassByPosition(msgs, k + 1, (author_id :> compact_id) @@ idmap,
                       Append(amap, [compact_id |-> compact_id,
                                     name |-> msgs[k].from,
                                     id |-> author_id]))

RECURSIVE AuthorPass(_, _, _, _)
AuthorPass(msgs, k, idmap, amap) ==
  IF k > Len(msgs) THEN [id_to_author_map |-> idmap, author_map |-> amap]
  ELSE LET author_id == msgs[k].from_id IN
       IF author_id = None \/ author_id \in DOMAIN idmap
       THEN AuthorPass(msgs, k + 1, idmap, amap)
       ELSE LET compact_id == "U" \o ToString(Len(amap) + 1) IN
            AuthorPass(msgs, k + 1, (author_id :> compact_id) @@ idmap,
                       Append(amap, [compact_id |-> compact_id,
                                     name |-> msgs[k].from,
                                     id |-> author_id]))

----------------------------------------------------------------------------
(* Reactions *)

\* Python's `a or b` on two optional strings.
Or(a, b) == IF a # None THEN a ELSE b

\* minimise_recent_reactions: one output entry per raw recent reactor.
minimise_recent_reactions(reactions, idmap) ==
  [j \in 1..Len(reactions.recent) |->
     LET reaction == reactions.recent[j]
         author_id == MapGet(idmap, reaction.from_id)
     IN IF author_id # None
        THEN [author_id |-> author_id, from |-> None, from_id |-> None,
              date |-> reaction.date]
        ELSE [author_id |-> None, from |-> reaction.from,
              from_id |-> reaction.from_id, date |-> reaction.date]]

\* Truthiness of reaction.get("recent"): present and not the empty list.
RecentTruthy(reaction) == reaction.has_recent /\ reaction.recent # << >>

\* The reactions block of parse_message_data (lines 283-298): one entry per
\* raw reaction, with "recent" only when the raw one is truthy.
NormalizeReaction(reaction, idmap) ==
  [type |-> reaction.type,
   count |-> reaction.count,
   shape |-> Or(Or(reaction.emoji, reaction.document_id), "STAR"),
   has_recent |-> RecentTruthy(reaction),
   recent |-> IF RecentTruthy(reaction)
              THEN minimise_recent_reactions(reaction, idmap) ELSE << >>]

\* Lines 208-215: the index of the first entry whose reaction.get(type)
\* equals next_shape_value, 0 when there is none.
FindExisting(entries, next_shape_value) ==
  LET hits == {i \in 1..Len(entries) : entries[i].shape = next_shape_value}
  IN IF hits = {} THEN 0 ELSE CHOOSE i \in hits : \A j \in hits : i <= j

\* The for loop of combine_reactions from its k-th incoming reaction on.
\* raised = TRUE stands for the TypeError / KeyError the code raises.
RECURSIVE ReactionsLoop(_, _, _, _)
ReactionsLoop(incoming, k, entries, idmap) ==
  IF k > Len(incoming) THEN [reactions |-> entries, raised |-> FALSE]
  ELSE
    LET next_reactions == incoming[k]
        next_shape_value == Or(next_reactions.emoji, next_reactions.document_id)
        i == FindExisting(entries, next_shape_value)
        last == incoming[Len(incoming)]
    IN IF i # 0
       THEN \* lines 217-221
            IF entries[i].type = "paid"
            THEN [reactions |-> entries, raised |-> TRUE]   \* "STAR"["count"]
            ELSE IF ~entries[i].has_recent \/ ~next_reactions.has_recent
            THEN [reactions |-> entries, raised |-> TRUE]   \* KeyError "recent"
            ELSE [reactions |->
                    [entries EXCEPT
                       ![i].count = @ + next_reactions.count,
                       ![i].recent = @ \o minimise_recent_reactions(
                                              next_reactions, idmap)],
                  raised |-> FALSE]                         \* return
       ELSE \* lines 223-231
            IF RecentTruthy(last)
            THEN [reactions |-> entries, raised |-> TRUE]   \* list["recent"] = ...
            ELSE ReactionsLoop(incoming, k + 1,
                   Append(entries, [type |-> next_reactions.type,
                                    count |-> next_reactions.count,
                                    shape |-> next_shape_value,
                                    has_recent |-> FALSE,
                                    recent |-> << >>]),
                   idmap)

\* combine_reactions: the canonical message after the merge, and whether
\* the merge raised.
combine_reactions(next_msg_data, parsed_message, idmap) ==
  IF ~next_msg_data.has_reactions
  THEN [msg |-> parsed_message, raised |-> FALSE]
  ELSE LET start == IF parsed_message.has_reactions
                    THEN parsed_message.reactions ELSE << >>
           res == ReactionsLoop(next_msg_data.reactions, 1, start, idmap)
       IN [msg |-> [parsed_message EXCEPT !.has_reactions = TRUE,
                                          !.reactions = res.reactions],
           raised |-> res.raised]

----------------------------------------------------------------------------
(* Parsing and absorption *)

\* parse_message_data (lines 257-300); edited_time, post_author and poll are
\* plain copies of input keys and are not carried.
parse_message_data(message, idmap) ==
  [message_id |-> message.id,
   author_id |-> MapGet(idmap, message.from_id),
   has_text |-> TextTruthy(message.text),
   text |-> IF TextTruthy(message.text)
            THEN format_text_entities_to_markdown(message.text) ELSE << >>,
   reply_to_message_id |-> message.reply_to_message_id,
   media |-> process_media(message),
   forwarded_from |-> message.forwarded_from,
   has_reactions |-> message.has_reactions,
   reactions |-> IF message.has_reactions
                 THEN [j \in 1..Len(message.reactions) |->
                         NormalizeReaction(message.reactions[j], idmap)]
                 ELSE << >>]

\* CanAbsorb without the test of the next entry's text.
CanAbsorbIgnoringNextText(message, next_msg_data) ==
  /\ next_msg_data.from_id = message.from_id
  /\ next_msg_data.date_unixtime = message.date_unixtime
  /\ next_msg_data.forwarded_from = message.forwarded_from
  /\ TextTruthy(message.text)

\* The loop condition of combine_messages (lines 160-167) once next_id is
\* inside the list.
CanAbsorb(message, next_msg_data) ==
  /\ next_msg_data.from_id = message.from_id
  /\ next_msg_data.date_unixtime = message.date_unixtime
  /\ next_msg_data.forwarded_from = message.forwarded_from
  /\ TextTruthy(next_msg_data.text)
  /\ TextTruthy(message.text)

\* Lines 172-175: the text of the canonical after one absorption.
AppendText(text, next_msg_data) ==
  LET next_text == format_text_entities_to_markdown(next_msg_data.text)
  IN IF next_text # << >> THEN text \o <<"\n\n">> \o next_text ELSE text

\* NeedsMedia that does not look at the canonical message.
NeedsMediaAlways(parsed_message) == TRUE

\* Lines 177-181: media is resolved from the absorbed entry only while the
\* canonical has none.
NeedsMedia(parsed_message) == parsed_message.media = << >>

\* AliasPut with key and value exchanged.
AliasPutSwapped(alias, msgs, nxt, message) ==
  (message.id :> msgs[nxt].id) @@ alias

\* AliasPut pointing at the entry right before the absorbed one.
AliasPutChained(alias, msgs, nxt, message) ==
  (msgs[nxt].id :> msgs[nxt - 1].id) @@ alias

\* AliasPut that records nothing.
AliasPutDropped(alias, msgs, nxt, message) == alias

\* Line 185: id_alias_map[next_msg_data["id"]] = message["id"].
AliasPut(alias, msgs, nxt, message) ==
  (msgs[nxt].id :> message.id) @@ alias

\* fix_reply_ids that looks the alias up and never stores it.
fix_reply_ids_unassigned(messages, alias_map) ==
  [j \in 1..Len(messages) |-> messages[j]]

\* fix_reply_ids (lines 303-316).
fix_reply_ids(messages, alias_map) ==
  [j \in 1..Len(messages) |->
     IF messages[j].reply_to_message_id = << >> THEN messages[j]
     ELSE LET reply_id == messages[j].reply_to_message_id[1] IN
          IF reply_id \notin DOMAIN alias_map THEN messages[j]
          ELSE [messages[j] EXCEPT
                  !.reply_to_message_id = <<alias_map[reply_id]>>]]

----------------------------------------------------------------------------
(* Inputs *)

\* The id of the i-th source entry: unique, increasing, not the list index.
SourceId(i) == 2 * i + 1

NoText == [kind |-> "absent", val |-> << >>]
Str(s) == [kind |-> "str", val |-> s]
Entities(parts) == [kind |-> "list", val |-> parts]
Entity(type, text) ==
  [type |-> type, text |-> text, language |-> << >>, href |-> <<"#">>]

NameOf(from_id) ==
  CASE from_id = "user1" -> "Ann" [] from_id = "user2" -> "Bob" [] OTHER -> None

Msg(type, from_id, date_unixtime, forwarded_from, text) ==
  [id |-> 0, type |-> type, from |-> NameOf(from_id), from_id |-> from_id,
   date_unixtime |-> date_unixtime, forwarded_from |-> forwarded_from,
   text |-> text, reply_to_message_id |-> << >>,
   media_type |-> None, media_file |-> None,
   has_reactions |-> FALSE, reactions |-> << >>]

Reactor(from_id) == [from |-> NameOf(from_id), from_id |-> from_id, date |-> "d1"]

Raw(type, emoji, document_id, count, has_recent, recent) ==
  [type |-> type, emoji |-> emoji, document_id |-> document_id,
   count |-> count, has_recent |-> has_recent, recent |-> recent]

WithReactions(msg, reactions) ==
  [msg EXCEPT !.has_reactions = TRUE, !.reactions = reactions]

WithReply(msg, reply_id) == [msg EXCEPT !.reply_to_message_id = <<reply_id>>]

Hi == Str(<<"Hi">>)
BoldB == Entities(<<Entity("str", <<"a">>), Entity("bold", <<"b">>)>>)

\* The (from_id, date_unixtime, forwarded_from) triples of the stitching runs.
Keys ==
  { <<"user1", "1000", None>>, <<"user2", "1000", None>>,
    <<"user1", "2000", None>>, <<"user1", "1000", "Channel">> }

\* Entries of the stitching runs: messages of every key and text shape,
\* service entries, a message without from_id, replies to the first and second
\* entry, and two reaction-bearing messages.
StitchPool ==
  { Msg("message", k[1], k[2], k[3], t) : k \in Keys, t \in {NoText, Hi, BoldB} }
  \cup { Msg("service", "user1", "1000", None, t) : t \in {NoText, Hi} }
  \cup { Msg("message", None, "1000", None, Hi) }
  \cup { WithReply(Msg("message", "user2", "1000", None, Hi), SourceId(i)) :
           i \in 1..2 }
  \cup { WithReply(Msg("message", "user1", "1000", None, Hi), SourceId(1)) }
  \cup { WithReactions(Msg("message", "user1", "1000", None, Hi),
           <<Raw("emoji", "thumb", None, 2, r, IF r THEN <<Reactor("user2")>> ELSE << >>)>>) :
           r \in BOOLEAN }

Thumb(count, has_recent) ==
  Raw("emoji", "thumb", None, count, has_recent,
      IF has_recent THEN <<Reactor("user2")>> ELSE << >>)
Heart(count, has_recent) ==
  Raw("emoji", "heart", None, count, has_recent,
      IF has_recent THEN <<Reactor("user9")>> ELSE << >>)

\* Well-formed raw reaction lists: at most one raw reaction per (type, shape).
ReactionLists ==
  { <<Thumb(2, TRUE)>>, <<Thumb(3, TRUE)>>, <<Thumb(2, FALSE)>>,
    <<Thumb(3, TRUE), Heart(1, FALSE)>>,
    <<Heart(1, TRUE), Thumb(1, FALSE)>>,
    <<Heart(1, TRUE)>>,
    <<Raw("paid", None, None, 1, FALSE, << >>)>>,
    <<Raw("emoji", "x", None, 1, TRUE, <<Reactor("user1")>>)>>,
    <<Raw("custom_emoji", None, "x", 1, TRUE, <<Reactor("user1")>>)>> }

\* Entries of the reaction runs: same author, time and text, varying reactions.
ReactPool ==
  { WithReactions(Msg("message", "user1", "1000", None, Hi), r) : r \in ReactionLists }
  \cup { Msg("message", "user1", "1000", None, Hi),
         Msg("service", "user1", "1000", None, NoText) }

WithIds(s) == [i \in 1..Len(s) |-> [s[i] EXCEPT !.id = SourceId(i)]]

SourceLists(pool) ==
  { WithIds(s) : s \in UNION { [1..n -> pool] : n \in 1..MaxMsgs } }

----------------------------------------------------------------------------
(* The run *)

\* No Media object and no batch exist in a run of stitch_messages.
MediaUnused ==
  /\ do_mark_media = FALSE
  /\ transcribe_media = FALSE
  /\ transcription_cache = << >>
  /\ last_call = << >>
  /\ engine_unavailable = FALSE

BatchUnused ==
  /\ source_paths = {}
  /\ bpc = "unused"
  /\ pending = {}
  /\ arrived = {}
  /\ worker_model = << >>
  /\ running = << >>
  /\ results = << >>
  /\ tbar = 0

InitFrom(pool) ==
  /\ source_messages \in SourceLists(pool)
  /\ pc = "authors"
  /\ id_to_author_map = << >>
  /\ author_map = << >>
  /\ message_id = 1
  /\ next_id = 1
  /\ parsed_msg = << >>
  /\ stitched_messages = << >>
  /\ id_alias_map = << >>
  /\ pbar = 0
  /\ copied = << >>
  /\ MediaUnused
  /\ BatchUnused

Init == InitFrom(StitchPool)
InitReact == InitFrom(ReactPool)

\* stitch_messages, lines 112-130.
BuildAuthorMap ==
  /\ pc = "authors"
  /\ LET res == AuthorPass(source_messages, 1, << >>, << >>) IN
       /\ id_to_author_map' = res.id_to_author_map
       /\ author_map' = res.author_map
  /\ pc' = "scan"
  /\ UNCHANGED <<source_messages, message_id, next_id, parsed_msg,
                 stitched_messages, id_alias_map, pbar, copied>>
  /\ UNCHANGED <<mediaVars, batchVars>>

\* Lines 134-140: an entry whose type is not "message".
SkipEntry ==
  /\ pc = "scan"
  /\ message_id <= Len(source_messages)
  /\ source_messages[message_id].type # "message"
  /\ pbar' = pbar + 1
  /\ message_id' = message_id + 1
  /\ UNCHANGED <<source_messages, pc, id_to_author_map, author_map, next_id,
                 parsed_msg, stitched_messages, id_alias_map, copied>>
  /\ UNCHANGED <<mediaVars, batchVars>>

\* Lines 134-143 and 159: a "message" entry becomes the canonical message.
ParseMessage ==
  /\ pc = "scan"
  /\ message_id <= Len(source_messages)
  /\ source_messages[message_id].type = "message"
  /\ pbar' = pbar + 1
  /\ parsed_msg' = <<parse_message_data(source_messages[message_id],
                                        id_to_author_map)>>
  /\ copied' = copied \o MediaCopies(source_messages[message_id])
  /\ next_id' = message_id + 1
  /\ pc' = "absorb"
  /\ UNCHANGED <<source_messages, id_to_author_map, author_map, message_id,
                 stitched_messages, id_alias_map>>
  /\ UNCHANGED <<mediaVars, batchVars>>

\* The while condition of combine_messages.
LoopCondition ==
  /\ next_id <= Len(source_messages)
  /\ CanAbsorb(source_messages[message_id], source_messages[next_id])

\* One iteration of the loop of combine_messages (lines 169-186).
AbsorbNext ==
  /\ pc = "absorb"
  /\ LoopCondition
  /\ LET message == source_messages[message_id]
         next_msg_data == source_messages[next_id]
         texted == [parsed_msg[1] EXCEPT !.text = AppendText(@, next_msg_data)]
         resolve == NeedsMedia(texted)
         withMedia == IF resolve /\ process_media(next_msg_data) # << >>
                      THEN [texted EXCEPT !.media = process_media(next_msg_data)]
                      ELSE texted
         merged == combine_reactions(next_msg_data, withMedia, id_to_author_map)
     IN IF merged.raised
        THEN /\ pc' = "crashed"
             /\ pbar' = pbar + 1   \* lines 169-181 precede the merge
             /\ copied' = IF resolve THEN copied \o MediaCopies(next_msg_data)
                          ELSE copied
             /\ UNCHANGED <<parsed_msg, id_alias_map, next_id>>
        ELSE /\ pc' = pc
             /\ pbar' = pbar + 1
             /\ parsed_msg' = <<merged.msg>>
             /\ copied' = IF resolve THEN copied \o MediaCopies(next_msg_data)
                          ELSE copied
             /\ id_alias_map' = AliasPut(id_alias_map, source_messages,
                                         next_id, message)
             /\ next_id' = next_id + 1
  /\ UNCHANGED <<source_messages, id_to_author_map, author_map, message_id,
                 stitched_messages>>
  /\ UNCHANGED <<mediaVars, batchVars>>

\* Lines 149-150 and 188: the loop ends and the canonical is emitted.
EmitMessage ==
  /\ pc = "absorb"
  /\ ~LoopCondition
  /\ stitched_messages' = Append(stitched_messages, parsed_msg[1])
  /\ message_id' = next_id
  /\ parsed_msg' = << >>
  /\ pc' = "scan"
  /\ UNCHANGED <<source_messages, id_to_author_map, author_map, next_id,
                 id_alias_map, pbar, copied>>
  /\ UNCHANGED <<mediaVars, batchVars>>

\* Lines 134 and 152-153: the list is consumed and stitch_messages returns.
StitchReturn ==
  /\ pc = "scan"
  /\ message_id > Len(source_messages)
  /\ pc' = "fix"
  /\ UNCHANGED <<source_messages, id_to_author_map, author_map, message_id,
                 next_id, parsed_msg, stitched_messages, id_alias_map, pbar,
                 copied>>
  /\ UNCHANGED <<mediaVars, batchVars>>

\* The reply pass over the emitted messages.
FixReplies ==
  /\ pc = "fix"
  /\ stitched_messages' = fix_reply_ids(stitched_messages, id_alias_map)
  /\ pc' = "done"
  /\ UNCHANGED <<source_messages, id_to_author_map, author_map, message_id,
                 next_id, parsed_msg, id_alias_map, pbar, copied>>
  /\ UNCHANGED <<mediaVars, batchVars>>

Next ==
  \/ BuildAuthorMap
  \/ SkipEntry
  \/ ParseMessage
  \/ AbsorbNext
  \/ EmitMessage
  \/ StitchReturn
  \/ FixReplies

Spec == Init /\ [][Next]_vars
SpecReact == InitReact /\ [][Next]_vars

----------------------------------------------------------------------------
(* Shared vocabulary of the properties *)

Finished == pc \in {"fix", "done"}

Indices == 1..Len(source_messages)

SameKey(a, b) ==
  /\ a.from_id = b.from_id
  /\ a.date_unixtime = b.date_unixtime
  /\ a.forwarded_from = b.forwarded_from

\* The index of the source entry with the given id (ids are unique).
IndexOf(id) == CHOOSE i \in Indices : source_messages[i].id = id

EmittedIds == { stitched_messages[j].message_id : j \in 1..Len(stitched_messages) }

RECURSIVE JoinRendered(_, _)
JoinRendered(i, j) ==
  IF i = j THEN format_text_entities_to_markdown(source_messages[i].text)
  ELSE format_text_entities_to_markdown(source_messages[i].text)
       \o <<"\n\n">> \o JoinRendered(i + 1, j)

\* i..j is a run of "message" entries with the same author, time and
\* forward origin and non-empty text.
RunMember(i, first) ==
  /\ source_messages[i].type = "message"
  /\ SameKey(source_messages[i], source_messages[first])
  /\ TextTruthy(source_messages[i].text)

IsMaximalRun(i, j) ==
  /\ i < j
  /\ \A k \in i..j : RunMember(k, i)
  /\ i > 1 => ~RunMember(i - 1, i)
  /\ j < Len(source_messages) => ~RunMember(j + 1, i)

----------------------------------------------------------------------------
(* C1 *)

\* C1: stitch_messages emits, for every maximal run of two or more consecutive
\* messages that share from_id, date_unixtime and forwarded_from and all have
\* non-empty text, exactly one ParsedMessage, whose text is the rendered texts
\* of the run members joined by "\n\n" in source order.
C1_RunsAreJoined ==
  /\ pc # "crashed"
  /\ Finished =>
       \A i \in Indices : \A j \in Indices :
         IsMaximalRun(i, j) =>
           LET out == { k \in 1..Len(stitched_messages) :
                          \E m \in i..j :
                            stitched_messages[k].message_id = source_messages[m].id }
           IN /\ Cardinality(out) = 1
              /\ \A k \in out : stitched_messages[k].text = JoinRendered(i, j)

----------------------------------------------------------------------------
(* C2 *)

\* The canonical of every alias entry is emitted, is not itself absorbed, lies
\* before the absorbed entry, and everything between the two was absorbed by
\* the same canonical: it is the first entry of the run that absorbed a.
AliasPointsToRunHead ==
  \A a \in DOMAIN id_alias_map :
    LET c == id_alias_map[a] IN
      /\ c \in EmittedIds
      /\ c \notin DOMAIN id_alias_map
      /\ IndexOf(c) < IndexOf(a)
      /\ \A k \in (IndexOf(c) + 1)..(IndexOf(a) - 1) :
           /\ source_messages[k].id \in DOMAIN id_alias_map
           /\ id_alias_map[source_messages[k].id] = c

\* C2: every write to the alias map adds a key that was not there and leaves
\* the other entries alone, and when stitch_messages has finished every alias
\* entry a -> c has c emitted and c the first entry of the run that absorbed a.
C2_AliasMap ==
  [][ /\ id_alias_map' # id_alias_map \/ (pc = "absorb" /\ next_id' # next_id) =>
          /\ Cardinality(DOMAIN id_alias_map') = Cardinality(DOMAIN id_alias_map) + 1
          /\ \A a \in DOMAIN id_alias_map :
               a \in DOMAIN id_alias_map' /\ id_alias_map'[a] = id_alias_map[a]
      /\ pc' \in {"fix", "done"} => AliasPointsToRunHead' ]_vars

\* A finished run of three entries: two alias entries with the same canonical.
C2_Witness ==
  /\ pc = "done"
  /\ Len(source_messages) = 3
  /\ DOMAIN id_alias_map = {SourceId(2), SourceId(3)}
  /\ id_alias_map[SourceId(3)] = SourceId(1)

----------------------------------------------------------------------------
(* C3 *)

\* C3: an entry whose type is not "message" is never a key of the alias map
\* (never absorbed) and never the origin of an emitted ParsedMessage.
C3_NonMessagesSkipped ==
  \A i \in Indices :
    source_messages[i].type # "message" =>
      /\ source_messages[i].id \notin DOMAIN id_alias_map
      /\ source_messages[i].id \notin EmittedIds

----------------------------------------------------------------------------
(* C4 *)

EmptyText(i) == ~TextTruthy(source_messages[i].text)

\* C4: an entry with empty or absent text is never a key of the alias map and
\* never the canonical of an alias entry; while such a message is the
\* canonical the absorption loop does not run (next_id stays right behind
\* message_id), and the message is emitted with no text of another entry.
C4_EmptyTextStandsAlone ==
  /\ \A i \in Indices :
       EmptyText(i) =>
         /\ source_messages[i].id \notin DOMAIN id_alias_map
         /\ \A a \in DOMAIN id_alias_map : id_alias_map[a] # source_messages[i].id
  /\ (pc = "absorb" /\ EmptyText(message_id)) =>
       /\ next_id = message_id + 1
       /\ ~LoopCondition
       /\ parsed_msg[1].text = << >>
  /\ \A j \in 1..Len(stitched_messages) :
       EmptyText(IndexOf(stitched_messages[j].message_id)) =>
         /\ stitched_messages[j].text = << >>
         /\ ~stitched_messages[j].has_text

\* A text-less message between two texted messages of the same author, time
\* and forward origin, all three emitted.
C4_Witness ==
  /\ pc = "done"
  /\ Len(source_messages) = 3
  /\ \A i \in Indices : source_messages[i].type = "message"
  /\ EmptyText(2) /\ ~EmptyText(1) /\ ~EmptyText(3)
  /\ SameKey(source_messages[1], source_messages[2])
  /\ SameKey(source_messages[2], source_messages[3])
  /\ Len(stitched_messages) = 3

----------------------------------------------------------------------------
(* C5 *)

\* The reply_to_message_id the source entry of an emitted message carries.
OriginalReply(parsed) ==
  source_messages[IndexOf(parsed.message_id)].reply_to_message_id

\* C5: after the reply pass, an emitted message whose original reply id is an
\* alias key carries the aliased id, which is the id of an emitted message;
\* one whose original reply id is no key keeps it; one without a reply id has
\* none.
C5_RepliesRewritten ==
  pc = "done" =>
    \A j \in 1..Len(stitched_messages) :
      LET m == stitched_messages[j]
          orig == OriginalReply(m)
      IN IF orig = << >> THEN m.reply_to_message_id = << >>
         ELSE IF orig[1] \in DOMAIN id_alias_map
         THEN /\ m.reply_to_message_id = <<id_alias_map[orig[1]]>>
              /\ m.reply_to_message_id[1] \in EmittedIds
         ELSE m.reply_to_message_id = orig

\* A reply to the absorbed second entry now points at the first.
C5_Witness ==
  /\ pc = "done"
  /\ \E j \in 1..Len(stitched_messages) :
       /\ OriginalReply(stitched_messages[j]) = <<SourceId(2)>>
       /\ SourceId(2) \in DOMAIN id_alias_map
       /\ stitched_messages[j].reply_to_message_id = <<SourceId(1)>>

----------------------------------------------------------------------------
(* C6 *)

\* C6: no alias value is an alias key, and once the reply pass is done a
\* second pass with the same alias map changes nothing.
C6_ReplyPassIdempotent ==
  /\ \A a \in DOMAIN id_alias_map : id_alias_map[a] \notin DOMAIN id_alias_map
  /\ pc = "done" =>
       fix_reply_ids(stitched_messages, id_alias_map) = stitched_messages

\* The first pass did rewrite a reply, with a two-entry alias map.
C6_Witness ==
  /\ pc = "done"
  /\ Cardinality(DOMAIN id_alias_map) >= 1
  /\ \E j \in 1..Len(stitched_messages) :
       /\ OriginalReply(stitched_messages[j]) # << >>
       /\ stitched_messages[j].reply_to_message_id # OriginalReply(stitched_messages[j])

----------------------------------------------------------------------------
(* Reactions: C7 - C10 *)

\* The shape value of an entry or raw reaction as the design defines it: the
\* emoji, else the document id, else the star marker for type "paid".
ShapeOfEntry(entry) ==
  IF entry.shape = None /\ entry.type = "paid" THEN "STAR" ELSE entry.shape

ShapeOfRaw(reaction) ==
  LET value == Or(reaction.emoji, reaction.document_id)
  IN IF value = None /\ reaction.type = "paid" THEN "STAR" ELSE value

RECURSIVE SumCounts(_)
SumCounts(list) ==
  IF list = << >> THEN 0 ELSE Head(list).count + SumCounts(Tail(list))

\* Every ParsedMessage of the state: the emitted ones and the canonical in
\* progress.
ParsedMessages ==
  { stitched_messages[j] : j \in 1..Len(stitched_messages) }
  \cup { parsed_msg[j] : j \in 1..Len(parsed_msg) }

\* An iteration of the absorption loop that ran to its end.
Absorbed == pc = "absorb" /\ pc' = "absorb" /\ next_id' = next_id + 1

\* C7: the reactions of a ParsedMessage hold at most one entry per (type,
\* shape value) pair, "paid" reactions included.
C7_OneEntryPerShape ==
  \A m \in ParsedMessages :
    \A i \in 1..Len(m.reactions) : \A j \in 1..Len(m.reactions) :
      (/\ m.reactions[i].type = m.reactions[j].type
       /\ ShapeOfEntry(m.reactions[i]) = ShapeOfEntry(m.reactions[j])) => i = j

\* C8: an absorption that completes adds the counts of all the incoming raw
\* reactions to the canonical's reactions.
C8_CountsAddUp ==
  [][Absorbed =>
       SumCounts(parsed_msg'[1].reactions) =
         SumCounts(parsed_msg[1].reactions)
         + SumCounts(source_messages[next_id].reactions)]_vars

\* C9: an absorption changes an existing entry only for an incoming raw
\* reaction of the same type and the same shape value.
C9_SameTypeOnly ==
  [][Absorbed =>
       \A i \in 1..Len(parsed_msg[1].reactions) :
         parsed_msg'[1].reactions[i] # parsed_msg[1].reactions[i] =>
           \E k \in 1..Len(source_messages[next_id].reactions) :
             LET raw == source_messages[next_id].reactions[k] IN
               /\ raw.type = parsed_msg[1].reactions[i].type
               /\ ShapeOfRaw(raw) = ShapeOfEntry(parsed_msg[1].reactions[i])]_vars

\* C10: merging well-formed reactions never raises, and every entry an
\* absorption appends carries a recent list exactly when its raw reaction
\* has one.
C10_MergeNeverFatal ==
  [][ /\ pc' # "crashed"
      /\ Absorbed =>
           \A i \in (Len(parsed_msg[1].reactions) + 1)..Len(parsed_msg'[1].reactions) :
             \E k \in 1..Len(source_messages[next_id].reactions) :
               LET raw == source_messages[next_id].reactions[k] IN
                 /\ raw.type = parsed_msg'[1].reactions[i].type
                 /\ ShapeOfRaw(raw) = ShapeOfEntry(parsed_msg'[1].reactions[i])
                 /\ parsed_msg'[1].reactions[i].has_recent = raw.has_recent ]_vars

----------------------------------------------------------------------------
(* Media dispatch (media_processor.py, class Media) *)

\* tgmix.consts.MEDIA_KEYS, in priority order.
MEDIA_KEYS ==
  <<"photo", "video_file", "voice_message", "video_message", "sticker", "file">>

\* The three placeholder strings of lines 128-132.
Placeholders ==
  { "(File not included. Change data exporting settings to download.)",
    "(File exceeds maximum size. Change data exporting settings to download.)",
    "(File unavailable, please try again later)" }

\* What (base_dir / filename).resolve(strict=True) finds for the file names
\* of the runs: "ok" with the resolved path, its containment in the resolved
\* base directory, its kind, its parent directory name and its name;
\* "missing" for FileNotFoundError; "error" for any other exception.
FileSystem ==
  { [filename |-> "voice_messages/v.ogg", resolves |-> "ok",
     path |-> "/base/voice_messages/v.ogg", inside |-> TRUE, is_dir |-> FALSE,
     parent |-> "voice_messages", name |-> "v.ogg"],
    [filename |-> "round_video_messages/r.mp4", resolves |-> "ok",
     path |-> "/base/round_video_messages/r.mp4", inside |-> TRUE, is_dir |-> FALSE,
     parent |-> "round_video_messages", name |-> "r.mp4"],
    [filename |-> "video_files/m.mp4", resolves |-> "ok",
     path |-> "/base/video_files/m.mp4", inside |-> TRUE, is_dir |-> FALSE,
     parent |-> "video_files", name |-> "m.mp4"],
    [filename |-> "photos/p.jpg", resolves |-> "ok",
     path |-> "/base/photos/p.jpg", inside |-> TRUE, is_dir |-> FALSE,
     parent |-> "photos", name |-> "p.jpg"],
    [filename |-> "files/d.pdf", resolves |-> "ok",
     path |-> "/base/files/d.pdf", inside |-> TRUE, is_dir |-> FALSE,
     parent |-> "files", name |-> "d.pdf"],
    [filename |-> "photos", resolves |-> "ok",
     path |-> "/base/photos", inside |-> TRUE, is_dir |-> TRUE,
     parent |-> "base", name |-> "photos"],
    [filename |-> "../secret.txt", resolves |-> "ok",
     path |-> "/secret.txt", inside |-> FALSE, is_dir |-> FALSE,
     parent |-> "", name |-> "secret.txt"],
    [filename |-> "video_files/link.mp4", resolves |-> "ok",
     path |-> "/home/video_files/x.mp4", inside |-> FALSE, is_dir |-> FALSE,
     parent |-> "video_files", name |-> "x.mp4"],
    [filename |-> "../outdir", resolves |-> "ok",
     path |-> "/outdir", inside |-> FALSE, is_dir |-> TRUE,
     parent |-> "", name |-> "outdir"],
    [filename |-> "../missing.txt", resolves |-> "missing",
     path |-> "/missing.txt", inside |-> FALSE, is_dir |-> FALSE,
     parent |-> "", name |-> "missing.txt"],
    [filename |-> "photos/gone.jpg", resolves |-> "missing",
     path |-> "/base/photos/gone.jpg", inside |-> TRUE, is_dir |-> FALSE,
     parent |-> "photos", name |-> "gone.jpg"],
    [filename |-> "photos/loop.jpg", resolves |-> "error",
     path |-> "/base/photos/loop.jpg", inside |-> TRUE, is_dir |-> FALSE,
     parent |-> "photos", name |-> "loop.jpg"] }

Lookup(filename) == CHOOSE f \in FileSystem : f.filename = filename

\* Media.detect: the first key of MEDIA_KEYS the message has, "" when none.
detect(message) ==
  LET hits == { i \in 1..Len(MEDIA_KEYS) : MEDIA_KEYS[i] \in DOMAIN message }
  IN IF hits = {} THEN ""
     ELSE MEDIA_KEYS[CHOOSE i \in hits : \A j \in hits : i <= j]

\* check_path that tests for a directory before the containment.
check_path_dir_first(filename) ==
  LET f == Lookup(filename) IN
    IF f.resolves = "missing" THEN "NF"
    ELSE IF f.resolves = "error" THEN "NF"
    ELSE IF f.is_dir THEN "isdir"
    ELSE IF ~f.inside THEN "OOB"
    ELSE ""

\* check_path without the directory test.
check_path_no_dir_test(filename) ==
  LET f == Lookup(filename) IN
    IF f.resolves = "missing" THEN "NF"
    ELSE IF f.resolves = "error" THEN "NF"
    ELSE IF ~f.inside THEN "OOB"
    ELSE ""

\* Media.check_path: the skip code ("" when the path is usable).
check_path(filename) ==
  LET f == Lookup(filename) IN
    IF f.resolves = "missing" THEN "NF"
    ELSE IF f.resolves = "error" THEN "NF"
    ELSE IF ~f.inside THEN "OOB"
    ELSE IF f.is_dir THEN "isdir"
    ELSE ""

\* Line 142-143.
CanBeTranscribed(file_type) ==
  file_type \in {"voice_messages", "round_video_messages", "video_files"}

\* Lines 148-149: removesuffix("s").removesuffix("_file").removeprefix("round_")
\* on the three directory names that can be transcribed.
TranscribedType(file_type) ==
  CASE file_type = "voice_messages" -> "voice_message"
    [] file_type = "round_video_messages" -> "video_message"
    [] file_type = "video_files" -> "video"

\* CacheHit that does not look at the transcribe_media setting.
CacheHitIgnoringConfig(transcribe, cache, resolved) ==
  IF CanBeTranscribed(resolved.parent) /\ resolved.path \in DOMAIN cache
  THEN cache[resolved.path] ELSE ""

\* Lines 145-149: the cached transcript process returns, "" when it goes on
\* to marking or copy.
CacheHit(transcribe, cache, resolved) ==
  IF transcribe /\ CanBeTranscribed(resolved.parent)
     /\ resolved.path \in DOMAIN cache
  THEN cache[resolved.path] ELSE ""

\* Media.mark_media: the marking function for the parent directory, None for
\* the plain copy of line 184.
MarkFunction(file_type) ==
  CASE file_type = "voice_messages" -> "mark_audio"
    [] file_type \in {"round_video_messages", "video_files"} -> "mark_video"
    [] file_type = "photos" -> "mark_image"
    [] OTHER -> None

\* The outcomes of a Marking Service call: it returns, or raises one of
\* Audio/Video/ImageMarkingError, InvalidMediaError, FFmpegProcessError.
MarkOutcomes == {"ok", "marking_failed", "invalid_media", "ffmpeg"}

\* _mark_media that leaves do_mark_media alone on FFmpegProcessError.
HandleOutcomeKeepsFlag(outcome) ==
  CASE outcome = "ok" -> [copy |-> FALSE, disable |-> FALSE, raised |-> FALSE]
    [] outcome \in {"marking_failed", "invalid_media", "ffmpeg"} ->
         [copy |-> TRUE, disable |-> FALSE, raised |-> FALSE]
    [] OTHER -> [copy |-> FALSE, disable |-> FALSE, raised |-> TRUE]

\* _mark_media without the except clause for InvalidMediaError.
HandleOutcomeInvalidUncaught(outcome) ==
  CASE outcome = "ok" -> [copy |-> FALSE, disable |-> FALSE, raised |-> FALSE]
    [] outcome = "marking_failed" -> [copy |-> TRUE, disable |-> FALSE, raised |-> FALSE]
    [] outcome = "ffmpeg" -> [copy |-> TRUE, disable |-> TRUE, raised |-> FALSE]
    [] OTHER -> [copy |-> FALSE, disable |-> FALSE, raised |-> TRUE]

\* Media._mark_media: what the try/except does with the outcome.
HandleOutcome(outcome) ==
  CASE outcome = "ok" -> [copy |-> FALSE, disable |-> FALSE, raised |-> FALSE]
    [] outcome = "marking_failed" -> [copy |-> TRUE, disable |-> FALSE, raised |-> FALSE]
    [] outcome = "invalid_media" -> [copy |-> TRUE, disable |-> FALSE, raised |-> FALSE]
    [] outcome = "ffmpeg" -> [copy |-> TRUE, disable |-> TRUE, raised |-> FALSE]
    [] OTHER -> [copy |-> FALSE, disable |-> FALSE, raised |-> TRUE]

\* Media.copy_media_file: the files written (none when the source is gone).
copy_media_file(source_path, output_path, exists) ==
  IF ~exists THEN << >>
  ELSE <<[src |-> source_path, dst |-> output_path, by |-> "copy"]>>

\* The result of a call that returns before the dispatch of lines 151-154.
Returned(code, text) ==
  [code |-> code, text |-> text, dispatched |-> FALSE, func |-> None,
   outcome |-> None, copies |-> 0, wrote |-> << >>, raised |-> FALSE]

\* Lines 151-154 with mark_media and _mark_media: marking when enabled and
\* the directory has a marking function, with the fallbacks, else the copy.
Dispatch(filename, resolved, mark, outcome, exists) ==
  LET func == IF mark THEN MarkFunction(resolved.parent) ELSE None
      prepared == IF func = "mark_audio" THEN <<resolved.name, ".mp4">>
                  ELSE <<resolved.name>>
      handled == HandleOutcome(outcome)
  IN IF func = None
     THEN [code |-> filename, text |-> None, dispatched |-> TRUE, func |-> None,
           outcome |-> None, copies |-> 1,
           wrote |-> copy_media_file(resolved.path, prepared, exists),
           raised |-> FALSE, disable |-> FALSE]
     ELSE [code |-> IF handled.raised THEN None ELSE filename, text |-> None,
           dispatched |-> TRUE, func |-> func, outcome |-> outcome,
           copies |-> IF handled.copy THEN 1 ELSE 0,
           wrote |-> IF outcome = "ok"
                     THEN <<[src |-> resolved.path, dst |-> prepared, by |-> func]>>
                     ELSE IF handled.copy
                     THEN copy_media_file(resolved.path, prepared, exists)
                     ELSE << >>,
           raised |-> handled.raised, disable |-> handled.disable]

\* Media.process (lines 111-155).  outcome is what the Marking Service does
\* if it is called, exists whether the source is still there at copy time.
process(message, cache, transcribe, mark, outcome, exists) ==
  LET media_type == detect(message) IN
  IF media_type = "" THEN Returned(None, None) @@ [disable |-> FALSE]
  ELSE
    LET filename == message[media_type] IN
    IF filename = None \/ filename = ""
    THEN Returned(None, None) @@ [disable |-> FALSE]
    ELSE IF filename \in Placeholders
    THEN Returned("B", None) @@ [disable |-> FALSE]
    ELSE IF check_path(filename) # ""
    THEN Returned(check_path(filename), None) @@ [disable |-> FALSE]
    ELSE
      LET resolved == Lookup(filename)
          transcribed_text == CacheHit(transcribe, cache, resolved)
      IN IF transcribed_text # ""
         THEN Returned(TranscribedType(resolved.parent), transcribed_text)
              @@ [disable |-> FALSE]
         ELSE Dispatch(filename, resolved, mark, outcome, exists)

\* The messages handed to Media.process: none, one or two media keys.
MediaMessages ==
  { [text |-> "Hi"],
    [photo |-> None], [file |-> ""],
    [photo |-> "photos/p.jpg"],
    [voice_message |-> "voice_messages/v.ogg"],
    [video_message |-> "round_video_messages/r.mp4"],
    [video_file |-> "video_files/m.mp4"],
    [file |-> "files/d.pdf"],
    [photo |-> "photos/p.jpg", file |-> "../secret.txt"],
    [file |-> "../secret.txt"],
    [video_file |-> "video_files/link.mp4"],
    [file |-> "../outdir"],
    [file |-> "../missing.txt"],
    [photo |-> "photos/gone.jpg"],
    [photo |-> "photos/loop.jpg"],
    [photo |-> "photos"] }
  \cup { [file |-> p] : p \in Placeholders }

\* The non-empty caches handed to process: a transcript, an empty transcript.
Caches ==
  { ("/base/voice_messages/v.ogg" :> "hello"),
    ("/base/voice_messages/v.ogg" :> "") @@ ("/base/photos/p.jpg" :> "caption") }

StitchUnused ==
  /\ source_messages = << >>
  /\ pc = "unused"
  /\ id_to_author_map = << >>
  /\ author_map = << >>
  /\ message_id = 1
  /\ next_id = 1
  /\ parsed_msg = << >>
  /\ stitched_messages = << >>
  /\ id_alias_map = << >>
  /\ pbar = 0
  /\ copied = << >>

\* Media.__init__ and the cache of the run.
InitMedia ==
  /\ StitchUnused
  /\ BatchUnused
  /\ do_mark_media \in BOOLEAN
  /\ transcribe_media \in BOOLEAN
  /\ transcription_cache = << >> \/ transcription_cache \in Caches
  /\ last_call = << >>
  /\ engine_unavailable = FALSE

\* One call of Media.process on the next message.  The Marking Service
\* outcome is drawn when the call reaches it, the survival of the source file
\* when the call reaches the dispatch.
Process ==
  /\ IF last_call = << >> THEN TRUE ELSE ~last_call[1].raised
  /\ \E message \in MediaMessages :
       LET probe == process(message, transcription_cache, transcribe_media,
                            do_mark_media, "ok", TRUE)
       IN \E outcome \in (IF probe.func # None THEN MarkOutcomes ELSE {"ok"}) :
          \E exists \in (IF probe.dispatched THEN BOOLEAN ELSE {TRUE}) :
            LET res == process(message, transcription_cache, transcribe_media,
                               do_mark_media, outcome, exists)
            IN /\ last_call' = <<[message |-> message,
                                  code |-> res.code, text |-> res.text,
                                  dispatched |-> res.dispatched,
                                  func |-> res.func, outcome |-> res.outcome,
                                  copies |-> res.copies, wrote |-> res.wrote,
                                  raised |-> res.raised]>>
               /\ do_mark_media' = IF res.disable THEN FALSE ELSE do_mark_media
               /\ engine_unavailable' =
                    (engine_unavailable \/ (res.func # None /\ res.outcome = "ffmpeg"))
  /\ UNCHANGED <<transcribe_media, transcription_cache>>
  /\ UNCHANGED <<stitchVars, batchVars>>

NextMedia == Process

SpecMedia == InitMedia /\ [][NextMedia]_vars

----------------------------------------------------------------------------
(* Media dispatch: C11 - C15 *)

\* The file name the last call detected, None when it detected none.
FileOf(call) ==
  IF detect(call.message) = "" THEN None ELSE call.message[detect(call.message)]

\* The last call was given a path of the file system (not a placeholder).
OnPath(call) == FileOf(call) \in { f.filename : f \in FileSystem }

\* The call touched nothing: no marking, no copy, no file written.
Untouched(call) ==
  /\ call.func = None
  /\ call.copies = 0
  /\ call.wrote = << >>

\* C11: once a marking call has raised FFmpegProcessError, do_mark_media is
\* false and stays false, no later call invokes the Marking Service, and every
\* later call that reaches the dispatch does one plain copy.
C11_MarkingStaysDisabled ==
  [][ /\ engine_unavailable' => ~do_mark_media'
      /\ engine_unavailable =>
           /\ ~do_mark_media /\ ~do_mark_media'
           /\ last_call'[1].func = None
           /\ last_call'[1].dispatched =>
                /\ last_call'[1].copies = 1
                /\ \A i \in 1..Len(last_call'[1].wrote) :
                     last_call'[1].wrote[i].by = "copy" ]_vars

\* After the engine was reported unavailable, a photo was plain-copied.
C11_Witness ==
  /\ engine_unavailable
  /\ last_call # << >>
  /\ last_call[1].dispatched
  /\ last_call[1].func = None
  /\ OnPath(last_call[1])
  /\ MarkFunction(Lookup(FileOf(last_call[1])).parent) = "mark_image"
  /\ last_call[1].wrote # << >>

\* C12: a call that invokes the Marking Service returns (filename, None)
\* whatever the outcome; on marking failed, invalid media and engine
\* unavailable it calls copy_media_file exactly once, on the first two
\* do_mark_media is unchanged.
C12_MarkingFailuresFallBack ==
  [][ last_call'[1].func # None =>
        /\ ~last_call'[1].raised
        /\ last_call'[1].code = FileOf(last_call'[1])
        /\ last_call'[1].text = None
        /\ last_call'[1].outcome \in {"marking_failed", "invalid_media", "ffmpeg"} =>
             last_call'[1].copies = 1
        /\ last_call'[1].outcome = "ok" => last_call'[1].copies = 0
        /\ last_call'[1].outcome \in {"marking_failed", "invalid_media"} =>
             do_mark_media' = do_mark_media ]_vars

\* Invalid media was reported, the file was copied and marking is still on.
C12_Witness ==
  /\ last_call # << >>
  /\ last_call[1].outcome = "invalid_media"
  /\ last_call[1].copies = 1
  /\ last_call[1].wrote # << >>
  /\ do_mark_media

\* C13 as claimed: every path that lies outside the base directory, whether
\* it names a file, a directory or nothing, gives "OOB" with nothing touched.
C13_OutsideIsAlwaysOOB ==
  (last_call # << >> /\ OnPath(last_call[1])
   /\ ~Lookup(FileOf(last_call[1])).inside) =>
     /\ last_call[1].code = "OOB"
     /\ last_call[1].text = None
     /\ Untouched(last_call[1])

\* C13, amended: a path outside the base directory gives "OOB" when it names
\* an existing file or directory and "NF" when it names nothing; in both
\* cases no media, no marking, no copy and no file written.
C13_OutsideNeverTouched ==
  (last_call # << >> /\ OnPath(last_call[1])
   /\ ~Lookup(FileOf(last_call[1])).inside) =>
     /\ last_call[1].code =
          (IF Lookup(FileOf(last_call[1])).resolves = "ok" THEN "OOB" ELSE "NF")
     /\ last_call[1].text = None
     /\ Untouched(last_call[1])

\* A directory outside the base directory was refused as out of bounds.
C13_Witness ==
  /\ last_call # << >>
  /\ FileOf(last_call[1]) = "../outdir"
  /\ last_call[1].code = "OOB"
  /\ Untouched(last_call[1])

\* The call resolved a file inside the base directory.
Resolved(call) ==
  /\ OnPath(call)
  /\ Lookup(FileOf(call)).resolves = "ok"
  /\ Lookup(FileOf(call)).inside
  /\ ~Lookup(FileOf(call)).is_dir

\* C14: the cache is never changed; a resolved voice, round-video or video
\* file with a non-empty cached transcript returns that transcript with
\* nothing touched when transcribe_media is on; every other resolved file
\* goes on to the dispatch.
C14_CacheShortCircuit ==
  [][ /\ transcription_cache' = transcription_cache
      /\ Resolved(last_call'[1]) =>
           LET call == last_call'[1]
               f == Lookup(FileOf(call))
               cached == IF f.path \in DOMAIN transcription_cache
                         THEN transcription_cache[f.path] ELSE ""
           IN IF /\ transcribe_media
                 /\ f.parent \in {"voice_messages", "round_video_messages",
                                  "video_files"}
                 /\ cached # ""
              THEN /\ call.text = cached
                   /\ ~call.dispatched
                   /\ Untouched(call)
              ELSE /\ call.dispatched
                   /\ call.text = None ]_vars

\* The cached transcript of the voice message was returned.
C14_Witness ==
  /\ last_call # << >>
  /\ transcribe_media
  /\ FileOf(last_call[1]) = "voice_messages/v.ogg"
  /\ last_call[1].text = "hello"
  /\ last_call[1].code = "voice_message"
  /\ Untouched(last_call[1])

\* The skip class: placeholder, not found, out of bounds, directory.
Skipped(call) ==
  \/ FileOf(call) \in Placeholders
  \/ OnPath(call) /\ ~Resolved(call)

\* C15: a skip-class call returns a skip code ("B" exactly for a placeholder)
\* with no media, touches nothing, leaves do_mark_media
\* and the cache unchanged and returns normally, so the next call can be
\* made; a message without a media key returns (None, None) the same way.
C15_SkipsTouchNothing ==
  [][ LET call == last_call'[1] IN
        /\ Skipped(call) =>
             /\ call.code \in {"B", "NF", "OOB", "isdir"}
             /\ call.code = "B" <=> FileOf(call) \in Placeholders
             /\ call.text = None
             /\ Untouched(call)
             /\ ~call.raised
             /\ do_mark_media' = do_mark_media
             /\ transcription_cache' = transcription_cache
        /\ detect(call.message) = "" =>
             /\ call.code = None /\ call.text = None
             /\ Untouched(call)
             /\ ~call.raised
             /\ do_mark_media' = do_mark_media
        /\ (last_call # << >> /\ Skipped(last_call[1])) => ENABLED Process
    ]_vars

\* A directory inside the base directory was skipped while marking is on.
C15_Witness ==
  /\ last_call # << >>
  /\ FileOf(last_call[1]) = "photos"
  /\ last_call[1].code = "isdir"
  /\ Untouched(last_call[1])
  /\ do_mark_media

----------------------------------------------------------------------------
(* Batch transcription (media_processor.py, batch_transcribe) *)

\* str.strip() on a token sequence; "SP" is a whitespace character.
RECURSIVE LStrip(_)
LStrip(s) == IF s # << >> /\ Head(s) = "SP" THEN LStrip(Tail(s)) ELSE s

RECURSIVE RStrip(_)
RStrip(s) ==
  IF s # << >> /\ s[Len(s)] = "SP" THEN RStrip(SubSeq(s, 1, Len(s) - 1)) ELSE s

Strip(s) == RStrip(LStrip(s))

\* "".join(segment.text for segment in segments)
RECURSIVE JoinSegments(_)
JoinSegments(segments) ==
  IF segments = << >> THEN << >>
  ELSE Head(segments) \o JoinSegments(Tail(segments))

\* What worker_model.transcribe does with each file: the segments it yields,
\* or an exception (an unreadable or corrupt file).
Engine ==
  [ good    |-> [raises |-> FALSE, segments |-> << <<"SP", "hello">>, <<"SP", "world">> >>],
    talk    |-> [raises |-> FALSE, segments |-> << <<"SP", "yes", "SP">> >>],
    silent  |-> [raises |-> FALSE, segments |-> << <<"SP">> >>],
    corrupt |-> [raises |-> TRUE,  segments |-> << >>] ]

AudioPaths == DOMAIN Engine

Workers == 1..NumProcesses

\* transcribe_worker lines 37-45 on one path: the pair it returns, or the
\* exception that leaves the function (there is no try in it; text is then
\* unused).
transcribe_worker(file_path) ==
  IF Engine[file_path].raises
  THEN [file_path |-> file_path, raised |-> TRUE, text |-> << >>]
  ELSE [file_path |-> file_path, raised |-> FALSE,
        text |-> Strip(JoinSegments(Engine[file_path].segments))]

InitBatch ==
  /\ StitchUnused
  /\ MediaUnused
  /\ source_paths \in SUBSET AudioPaths
  /\ bpc = "called"
  /\ pending = {}
  /\ arrived = {}
  /\ worker_model = [w \in Workers |-> FALSE]
  /\ running = [w \in Workers |-> None]
  /\ results = << >>
  /\ tbar = 0

\* Lines 59-73: the empty input returns {} at once; otherwise the pool is
\* created (init_worker sets worker_model = None) and the tasks are queued.
StartBatch ==
  /\ bpc = "called"
  /\ IF source_paths = {}
     THEN bpc' = "returned" /\ pending' = pending
     ELSE bpc' = "collecting" /\ pending' = source_paths
  /\ UNCHANGED <<source_paths, arrived, worker_model, running, results, tbar>>
  /\ UNCHANGED <<stitchVars, mediaVars>>

\* An idle worker takes the next task; lines 29-35 build its model on the
\* first one.
TakeTask(w) ==
  /\ bpc = "collecting"
  /\ running[w] = None
  /\ \E file_path \in pending :
       /\ running' = [running EXCEPT ![w] = file_path]
       /\ pending' = pending \ {file_path}
  /\ worker_model' = [worker_model EXCEPT ![w] = TRUE]
  /\ UNCHANGED <<source_paths, bpc, arrived, results, tbar>>
  /\ UNCHANGED <<stitchVars, mediaVars>>

\* The worker finishes its task: the pool sends the returned pair, or the
\* exception raised in the worker, back to the parent.
FinishTask(w) ==
  /\ bpc = "collecting"
  /\ running[w] # None
  /\ worker_model[w]
  /\ arrived' = arrived \cup {transcribe_worker(running[w])}
  /\ running' = [running EXCEPT ![w] = None]
  /\ UNCHANGED <<source_paths, bpc, pending, worker_model, results, tbar>>
  /\ UNCHANGED <<stitchVars, mediaVars>>

\* Lines 72-75: the loop takes the next completed item from imap_unordered;
\* an item that holds an exception re-raises it in the parent, which leaves
\* the loop, the with block (the pool is terminated) and batch_transcribe.
CollectResult ==
  /\ bpc = "collecting"
  /\ \E item \in arrived :
       /\ arrived' = arrived \ {item}
       /\ IF item.raised
          THEN /\ bpc' = "raised"
               /\ UNCHANGED <<results, tbar>>
          ELSE /\ results' = (item.file_path :> <<item.text>>) @@ results
               /\ tbar' = tbar + 1
               /\ bpc' = bpc
  /\ UNCHANGED <<source_paths, pending, worker_model, running>>
  /\ UNCHANGED <<stitchVars, mediaVars>>

\* Lines 76-79: every task has been yielded; the results are returned.
ReturnResults ==
  /\ bpc = "collecting"
  /\ pending = {} /\ arrived = {}
  /\ \A w \in Workers : running[w] = None
  /\ bpc' = "returned"
  /\ UNCHANGED <<source_paths, pending, arrived, worker_model, running, results, tbar>>
  /\ UNCHANGED <<stitchVars, mediaVars>>

NextBatch ==
  \/ StartBatch
  \/ \E w \in Workers : TakeTask(w)
  \/ \E w \in Workers : FinishTask(w)
  \/ CollectResult
  \/ ReturnResults

SpecBatch == InitBatch /\ [][NextBatch]_vars

\* C16: batch_transcribe never raises, whatever the assignment of items to
\* workers and the completion order, and when it returns the result has
\* exactly one entry per requested path, null for an item whose
\* transcription failed.
C16_BatchSurvivesFailure ==
  /\ bpc # "raised"
  /\ bpc = "returned" =>
       /\ DOMAIN results = source_paths
       /\ \A file_path \in source_paths :
            results[file_path] =
              (IF Engine[file_path].raises THEN << >>
               ELSE <<transcribe_worker(file_path).text>>)

----------------------------------------------------------------------------
(* The author map: C17 *)

\* Entries of the author runs: three authors, an entry without from_id and a
\* service entry.
AuthorPool ==
  { Msg("message", f, "1000", None, Hi) : f \in {None, "user1", "user2", "user3"} }
  \cup { Msg("service", "user3", "1000", None, NoText) }

InitAuthors == InitFrom(AuthorPool)

SpecAuthors == InitAuthors /\ [][Next]_vars

\* The from_ids of the source list, None apart.
FromIds == { source_messages[i].from_id : i \in Indices } \ {None}

\* The first entry that carries the from_id.
FirstSeen(from_id) ==
  CHOOSE i \in Indices :
    /\ source_messages[i].from_id = from_id
    /\ \A j \in 1..(i - 1) : source_messages[j].from_id # from_id

\* C17: after the author pass the keys of id_to_author_map are the distinct
\* non-null from_ids, author_map holds U1..Uk in this order with k their
\* number, U(j) belongs to the j-th from_id in first-seen order, no two
\* from_ids share a compact id, and every ParsedMessage carries the compact
\* id of its from_id, None for a null from_id.
C17_CompactAuthorIds ==
  pc \notin {"authors", "unused"} =>
    /\ DOMAIN id_to_author_map = FromIds
    /\ Len(author_map) = Cardinality(FromIds)
    /\ \A j \in 1..Len(author_map) :
         /\ author_map[j].compact_id = "U" \o ToString(j)
         /\ author_map[j].id \in FromIds
         /\ id_to_author_map[author_map[j].id] = author_map[j].compact_id
         /\ author_map[j].name = source_messages[FirstSeen(author_map[j].id)].from
         /\ \A i \in 1..(j - 1) :
              FirstSeen(author_map[i].id) < FirstSeen(author_map[j].id)
    /\ \A a \in FromIds : \A b \in FromIds :
         id_to_author_map[a] = id_to_author_map[b] => a = b
    /\ \A m \in ParsedMessages :
         LET from_id == source_messages[IndexOf(m.message_id)].from_id IN
           m.author_id = (IF from_id = None THEN None ELSE id_to_author_map[from_id])

\* Two authors were numbered, user2 first, in a list of three entries, and a
\* message without from_id was emitted with author_id None.
C17_Witness ==
  /\ pc = "done"
  /\ Len(source_messages) = 3
  /\ Len(author_map) = 2
  /\ source_messages[1].from_id = "user2"
  /\ author_map[1].id = "user2"
  /\ \E j \in 1..Len(stitched_messages) :
       /\ stitched_messages[j].author_id = None
       /\ source_messages[IndexOf(stitched_messages[j].message_id)].from_id = None

----------------------------------------------------------------------------
(* Termination and partition of the source list: C18, C19 *)

\* C18: stitch_messages comes to its end on every source list, and when it
\* has stopped the cursor is past the last entry and the progress callback
\* has been invoked once per source entry.
C18_EveryEntryVisitedOnce ==
  /\ pc \in {"fix", "done", "crashed"} =>
       /\ pc # "crashed"
       /\ message_id = Len(source_messages) + 1
       /\ pbar = Len(source_messages)
  /\ pc \in {"scan", "absorb", "emit"} => pbar <= Len(source_messages)

\* C19: when stitch_messages has finished, every source entry of type
\* "message" is either the origin of exactly one emitted ParsedMessage and
\* no key of the alias map, or a key of the alias map and the origin of no
\* emitted ParsedMessage; every emitted ParsedMessage comes from such an
\* entry, and the emitted list is in source order.
C19_EmittedOrAliased ==
  Finished =>
    /\ \A i \in Indices :
         source_messages[i].type = "message" =>
           LET id == source_messages[i].id
               emitted == { j \in 1..Len(stitched_messages) :
                              stitched_messages[j].message_id = id }
           IN \/ Cardinality(emitted) = 1 /\ id \notin DOMAIN id_alias_map
              \/ emitted = {} /\ id \in DOMAIN id_alias_map
    /\ \A j \in 1..Len(stitched_messages) :
         \E i \in Indices :
           /\ source_messages[i].id = stitched_messages[j].message_id
           /\ source_messages[i].type = "message"
    /\ \A j \in 1..Len(stitched_messages) : \A k \in 1..Len(stitched_messages) :
         j < k => IndexOf(stitched_messages[j].message_id)
                    < IndexOf(stitched_messages[k].message_id)

\* A finished run of three messages: the first absorbed the second, the
\* third was emitted on its own.
C19_Witness ==
  /\ pc = "done"
  /\ Len(source_messages) = 3
  /\ \A i \in Indices : source_messages[i].type = "message"
  /\ DOMAIN id_alias_map = {SourceId(2)}
  /\ Len(stitched_messages) = 2
  /\ stitched_messages[1].message_id = SourceId(1)
  /\ stitched_messages[2].message_id = SourceId(3)

----------------------------------------------------------------------------
(* Media of a run: C20 *)

WithMedia(msg, media_type, media_file) ==
  [msg EXCEPT !.media_type = media_type, !.media_file = media_file]

\* Entries of the media runs: one key, with and without text, without media
\* and with three different files, and a service entry.
AttachPool ==
  { Msg("message", "user1", "1000", None, Hi) }
  \cup { WithMedia(Msg("message", "user1", "1000", None, Hi), "photo", f) :
           f \in {"photos/a.jpg", "photos/b.jpg"} }
  \cup { WithMedia(Msg("message", "user1", "1000", None, Hi), "file", "files/d.pdf") }
  \cup { WithMedia(Msg("message", "user1", "1000", None, NoText), "photo",
                   "photos/c.jpg") }
  \cup { Msg("service", "user1", "1000", None, NoText) }

InitAttach == InitFrom(AttachPool)

SpecAttach == InitAttach /\ [][Next]_vars

\* The descriptor of the first of the entries i..j that has media, << >>
\* when none has.
RECURSIVE EarliestMedia(_, _)
EarliestMedia(i, j) ==
  IF i > j THEN << >>
  ELSE IF source_messages[i].media_type # None
       THEN <<[type |-> source_messages[i].media_type,
               source_file |-> source_messages[i].media_file]>>
       ELSE EarliestMedia(i + 1, j)

\* C20: an absorption leaves the media of the canonical message and the copy
\* log alone when the canonical has media, and otherwise attaches the media
\* of the absorbed entry with one copy of its file; the ParsedMessage that
\* is emitted carries the media of the earliest member of its run that has
\* any.
C20_MediaSetOnce ==
  [][ /\ Absorbed =>
           IF parsed_msg[1].media # << >>
           THEN /\ parsed_msg'[1].media = parsed_msg[1].media
                /\ copied' = copied
           ELSE IF source_messages[next_id].media_type = None
           THEN /\ parsed_msg'[1].media = << >>
                /\ copied' = copied
           ELSE /\ parsed_msg'[1].media =
                     <<[type |-> source_messages[next_id].media_type,
                        source_file |-> source_messages[next_id].media_file]>>
                /\ copied' = Append(copied, source_messages[next_id].media_file)
      /\ Len(stitched_messages') > Len(stitched_messages) =>
           stitched_messages'[Len(stitched_messages')].media =
             EarliestMedia(message_id, next_id - 1) ]_vars

\* A run of three: the first entry has no media, the second brought a.jpg,
\* and b.jpg of the third was neither attached nor copied.
C20_Witness ==
  /\ pc = "done"
  /\ Len(source_messages) = 3
  /\ source_messages[1].media_type = None
  /\ source_messages[2].media_file = "photos/a.jpg"
  /\ source_messages[3].media_file = "photos/b.jpg"
  /\ Len(stitched_messages) = 1
  /\ stitched_messages[1].media = <<[type |-> "photo", source_file |-> "photos/a.jpg"]>>
  /\ copied = <<"photos/a.jpg">>

====
